---- MODULE Spec2Model ----
(***************************************************************************)
(* A model of pyrolite.util.plot (ternary coordinate transforms, ternary   *)
(* heatmap, percentile contours) and pyrolite.util.alphamelts.meltsfile.   *)
(*                                                                         *)
(* The functions are pure: every action is one call of one function on     *)
(* arguments drawn from bounded sets, made from the idle state (fn =       *)
(* "none"), and records the arguments and the result (a value or the       *)
(* exception raised); a call made on the result of the call before it      *)
(* records that call in prev.                                              *)
(*                                                                         *)
(* Arithmetic is exact.  A float is modelled by a rational <<n, d>> in     *)
(* lowest terms (d > 0); the coordinate transforms, which multiply by      *)
(* sqrt(3)/2, work in the field Q(sqrt 3): a number r + s*sqrt(3) is the   *)
(* pair <<r, s>> of rationals.  Rounding error is not modelled.            *)
(***************************************************************************)
EXTENDS Integers, Sequences, FiniteSets, TLC

VARIABLES fn, args, ret, prev

vars == <<fn, args, ret, prev>>

(***************************************************************************)
(* Bounds                                                                  *)
(***************************************************************************)
MaxPart == 2       \* parts of an input composition row are 0..MaxPart
MaxCoord == 2      \* input xy coordinates are n/2, n in -MaxCoord..MaxCoord+1
MaxCols == 4       \* widths (last dimension) of the shape-test arrays
NRows == {1, 2}    \* row counts of the 2-D input arrays

(***************************************************************************)
(* Exact rational arithmetic                                               *)
(***************************************************************************)
Abs(n) == IF n < 0 THEN -n ELSE n

RECURSIVE GCD(_, _)
GCD(a, b) == IF b = 0 THEN a ELSE GCD(b, a % b)

RNorm(n, d) ==
    LET sn == IF d < 0 THEN -n ELSE n
        sd == Abs(d)
        g == GCD(Abs(sn), sd)
    IN  <<sn \div g, sd \div g>>

R(n) == <<n, 1>>
RAdd(a, b) == RNorm(a[1] * b[2] + b[1] * a[2], a[2] * b[2])
RNeg(a) == <<-a[1], a[2]>>
RSub(a, b) == RAdd(a, RNeg(b))
RMul(a, b) == RNorm(a[1] * b[1], a[2] * b[2])
RDiv(a, b) == RNorm(a[1] * b[2], a[2] * b[1])
RLe(a, b) == a[1] * b[2] <= b[1] * a[2]
RLt(a, b) == a[1] * b[2] < b[1] * a[2]

(***************************************************************************)
(* Q(sqrt 3): <<r, s>> is r + s*sqrt(3)                                    *)
(***************************************************************************)
Q(n, d) == <<RNorm(n, d), R(0)>>
QZero == Q(0, 1)
QOne == Q(1, 1)
QHalf == Q(1, 2)
QSqrt3Half == <<R(0), RNorm(1, 2)>>
QAdd(a, b) == <<RAdd(a[1], b[1]), RAdd(a[2], b[2])>>
QNeg(a) == <<RNeg(a[1]), RNeg(a[2])>>
QSub(a, b) == QAdd(a, QNeg(b))
QMul(a, b) ==
    <<RAdd(RMul(a[1], b[1]), RMul(R(3), RMul(a[2], b[2]))),
      RAdd(RMul(a[1], b[2]), RMul(a[2], b[1]))>>
QInv(a) ==
    LET den == RSub(RMul(a[1], a[1]), RMul(R(3), RMul(a[2], a[2])))
    IN  <<RDiv(a[1], den), RNeg(RDiv(a[2], den))>>
QDiv(a, b) == QMul(a, QInv(b))

RECURSIVE QSum(_)
QSum(s) == IF s = <<>> THEN QZero ELSE QAdd(s[1], QSum(Tail(s)))

(***************************************************************************)
(* Results and arrays                                                      *)
(***************************************************************************)
Ok(v) == [status |-> "ok", value |-> v]
Raise(e) == [status |-> "raise", exc |-> e]
NoCall == [fn |-> "none"]

\* A numpy array of dimension 1 (data: a sequence of numbers) or 2 (data: a
\* non-empty sequence of equally long rows).
Arr1(d) == [ndim |-> 1, data |-> d]
Arr2(d) == [ndim |-> 2, data |-> d]
\* shape[0]
FirstDim(a) == Len(a.data)

\* shape[-1]
LastDim(a) == IF a.ndim = 1 THEN Len(a.data) ELSE Len(a.data[1])

\* the same sequence, with its elements evaluated once
AsSeq(s) == s \o <<>>

\* body(v) with v evaluated once: a value bound by a set is evaluated when
\* the set is, a value bound by LET each time it is read
Bind(v, body(_)) == CHOOSE r \in {body(x) : x \in {v}} : TRUE

\* .T of a 2-D array given as a sequence of rows
Transpose(m) == AsSeq([j \in 1..Len(m[1]) |-> AsSeq([i \in 1..Len(m) |-> m[i][j]])])

MatMul(A, B) ==
    AsSeq([i \in 1..Len(A) |->
        AsSeq([j \in 1..Len(B[1]) |->
            QSum(AsSeq([k \in 1..Len(B) |-> QMul(A[i][k], B[k][j])]))])])

(***************************************************************************)
(* pyrolite.comp.codata.close: each row divided by its sum (a 1-D array    *)
(* by its total), so that the parts sum to 1.                              *)
(***************************************************************************)
CloseRow(row) == AsSeq([i \in 1..Len(row) |-> QDiv(row[i], QSum(row))])

close(X) ==
    IF X.ndim = 2
    THEN Arr2(AsSeq([i \in 1..Len(X.data) |-> CloseRow(X.data[i])]))
    ELSE Arr1(CloseRow(X.data))

(***************************************************************************)
(* affine_transform(mtx)(data)                                             *)
(***************************************************************************)
Min(a, b) == IF a < b THEN a ELSE b

\* xy = data[:, :2]; (mtx @ vstack((xy.T[:2], ones(n))))[:2]
\* data[:, :2] indexes two axes: a 1-D array raises IndexError.  The product
\* needs three stacked rows: fewer than two columns raise ValueError.
tfm(mtx, data) ==
    IF data.ndim # 2 THEN Raise("IndexError")
    ELSE LET xy == AsSeq([i \in 1..Len(data.data) |->
                       SubSeq(data.data[i], 1, Min(2, Len(data.data[i])))])
             xyT == Transpose(xy)
             stacked == Append(SubSeq(xyT, 1, Min(2, Len(xyT))),
                               AsSeq([j \in 1..Len(xy) |-> QOne]))
         IN  IF Len(stacked) # 3 THEN Raise("ValueError")
             ELSE Ok(SubSeq(MatMul(mtx, stacked), 1, 2))

ScaleMtx(xscale, yscale) ==
    << <<xscale, QZero, QZero>>, <<QZero, yscale, QZero>>, <<QZero, QZero, QOne>> >>

ShearMtxNoShear ==
    << <<QOne, QZero, QZero>>, <<QZero, QOne, QZero>>, <<QZero, QZero, QOne>> >>

ShearMtx ==
    << <<QOne, QHalf, QZero>>, <<QZero, QOne, QZero>>, <<QZero, QZero, QOne>> >>

UnscaleMtx(xscale, yscale) ==
    << <<QDiv(QOne, xscale), QZero, QZero>>,
       <<QZero, QDiv(QOne, yscale), QZero>>,
       <<QZero, QZero, QOne>> >>

UnshearMtxPlus ==
    << <<QOne, QHalf, QZero>>, <<QZero, QOne, QZero>>, <<QZero, QZero, QOne>> >>

UnshearMtx ==
    << <<QOne, QNeg(QHalf), QZero>>, <<QZero, QOne, QZero>>, <<QZero, QZero, QOne>> >>

(***************************************************************************)
(* ABC_to_xy: assert the last dimension is 3; xy = scale(shear(close(ABC)).T); *)
(* return xy.T                                                             *)
(***************************************************************************)
ABC_to_xy(ABC, xscale, yscale) ==
    IF LastDim(ABC) # 3 THEN Raise("AssertionError")
    ELSE LET sheared == tfm(ShearMtx, close(ABC))
         IN  IF sheared.status = "raise" THEN sheared
             ELSE LET scaled == tfm(ScaleMtx(xscale, yscale),
                                    Arr2(Transpose(sheared.value)))
                  IN  IF scaled.status = "raise" THEN scaled
                      ELSE Ok(Arr2(Transpose(scaled.value)))

(***************************************************************************)
(* xy_to_ABC: assert the last dimension is 2; xs, ys = shear(scale(xy).T); *)
(* zs = 1 - (xs + ys); return vstack([xs, ys, zs]).T                       *)
(***************************************************************************)
ThirdPartNoY(xs, ys) == AsSeq([j \in 1..Len(xs) |-> QSub(QOne, xs[j])])

ThirdPart(xs, ys) == AsSeq([j \in 1..Len(xs) |-> QSub(QOne, QAdd(xs[j], ys[j]))])

xy_to_ABC(xy, xscale, yscale) ==
    IF LastDim(xy) # 2 THEN Raise("AssertionError")
    ELSE LET scaled == tfm(UnscaleMtx(xscale, yscale), xy)
         IN  IF scaled.status = "raise" THEN scaled
             ELSE LET sheared == tfm(UnshearMtx, Arr2(Transpose(scaled.value)))
                  IN  IF sheared.status = "raise" THEN sheared
                      ELSE LET xs == sheared.value[1]
                               ys == sheared.value[2]
                               zs == ThirdPart(xs, ys)
                           IN  Ok(Arr2(Transpose(<<xs, ys, zs>>)))

(***************************************************************************)
(* Inputs of the coordinate transforms                                     *)
(***************************************************************************)
XScales == {QOne, Q(2, 1)}
YScales == {QOne, QSqrt3Half}

Parts == {Q(n, 1) : n \in 0..MaxPart}
RawRows3 == {r \in [1..3 -> Parts] : QSum(r) # QZero}
\* rows as measured (not summing to 1) and the same rows already closed
Rows3 == RawRows3 \cup {CloseRow(r) : r \in RawRows3}
SeqsOver(S) == UNION {[1..n -> S] : n \in NRows}

ABCArrays == {Arr2(d) : d \in SeqsOver(Rows3)}

Coords == {Q(n, 2) : n \in (-MaxCoord)..(MaxCoord + 1)}
XYArrays == {Arr2(d) : d \in SeqsOver([1..2 -> Coords])}

\* numpy.ones(shape) for the 1-D and 2-D shapes with last dimension 1..MaxCols
OnesArrays ==
    {Arr1([j \in 1..w |-> QOne]) : w \in 1..MaxCols}
        \cup {Arr2([i \in 1..n |-> [j \in 1..w |-> QOne]]) :
                  n \in NRows, w \in 1..MaxCols}

(***************************************************************************)
(* The calls                                                               *)
(***************************************************************************)
Init ==
    /\ fn = "none"
    /\ args = <<>>
    /\ ret = Ok(<<>>)
    /\ prev = NoCall

Call_ABC_to_xy ==
    /\ fn = "none"
    /\ \E ABC \in ABCArrays \cup OnesArrays, xscale \in XScales, yscale \in YScales :
        /\ fn' = "ABC_to_xy"
        /\ args' = [ABC |-> ABC, xscale |-> xscale, yscale |-> yscale]
        /\ ret' = ABC_to_xy(ABC, xscale, yscale)
        /\ prev' = NoCall

Call_xy_to_ABC ==
    /\ fn = "none"
    /\ \E xy \in XYArrays \cup OnesArrays, xscale \in XScales, yscale \in YScales :
        /\ fn' = "xy_to_ABC"
        /\ args' = [xy |-> xy, xscale |-> xscale, yscale |-> yscale]
        /\ ret' = xy_to_ABC(xy, xscale, yscale)
        /\ prev' = NoCall

\* XAtfm after AXtfm (ternary_heatmap lines 239-240, 255-261): xy_to_ABC on
\* what ABC_to_xy returned, with the same scales.
Call_xy_to_ABC_of_result ==
    /\ fn = "ABC_to_xy"
    /\ ret.status = "ok"
    /\ fn' = "xy_to_ABC"
    /\ args' = [xy |-> ret.value, xscale |-> args.xscale, yscale |-> args.yscale]
    /\ ret' = xy_to_ABC(ret.value, args.xscale, args.yscale)
    /\ prev' = [fn |-> fn, args |-> args, ret |-> ret]

NextConv ==
    \/ Call_ABC_to_xy
    \/ Call_xy_to_ABC
    \/ Call_xy_to_ABC_of_result

SpecConv == Init /\ [][NextConv]_vars

(***************************************************************************)
(* Claims about the coordinate transforms (SpecConv)                       *)
(***************************************************************************)
IsPositive(q) == q[2] = R(0) /\ q[1][1] > 0
ClosedPositiveRow(r) == QSum(r) = QOne /\ \A i \in 1..Len(r) : IsPositive(r[i])
Chained == fn = "xy_to_ABC" /\ prev.fn = "ABC_to_xy"

\* C1: for a composition p of 3 positive parts summing to 1 and yscale in
\* {1, sqrt(3)/2}, xy_to_ABC(ABC_to_xy(p, yscale=s), yscale=s) is p again
\* (exact arithmetic).
C1_RoundTrip ==
    (Chained /\ \A i \in 1..Len(prev.args.ABC.data) :
                    ClosedPositiveRow(prev.args.ABC.data[i]))
        => /\ ret.status = "ok"
           /\ ret.value = prev.args.ABC

C1_Witness ==
    /\ Chained
    /\ ret.status = "ok"
    /\ args.yscale = QSqrt3Half
    /\ Len(prev.args.ABC.data) = 2
    /\ prev.args.ABC.data[1] = <<Q(1, 4), Q(1, 4), Q(1, 2)>>
    /\ ClosedPositiveRow(prev.args.ABC.data[2])
    /\ ret.value = prev.args.ABC

\* C2: the three parts xy_to_ABC returns sum to 1 for every input point, also
\* one outside the ternary triangle, and every non-zero xscale and yscale.
C2_Closure ==
    (fn = "xy_to_ABC" /\ ret.status = "ok")
        => \A i \in 1..Len(ret.value.data) : QSum(ret.value.data[i]) = QOne

\* a point left of and below the triangle: a negative part comes back
C2_Witness ==
    /\ fn = "xy_to_ABC"
    /\ prev = NoCall
    /\ ret.status = "ok"
    /\ args.xy.data[1] = <<Q(-1, 1), Q(-1, 2)>>
    /\ args.yscale = QSqrt3Half
    /\ ~IsPositive(ret.value.data[1][1])
    /\ QSum(ret.value.data[1]) = QOne

\* C3: ABC_to_xy on a row (a, b, c) gives x = xscale * (a' + b'/2) and
\* y = yscale * b', where a' = a/(a+b+c) and b' = b/(a+b+c) are the closed
\* parts; c enters only through the sum.
C3_Row(r, xscale, yscale) ==
    LET tot == QAdd(r[1], QAdd(r[2], r[3]))
        a == QDiv(r[1], tot)
        b == QDiv(r[2], tot)
    IN  <<QMul(xscale, QAdd(a, QMul(QHalf, b))), QMul(yscale, b)>>

C3_ShearScale ==
    (fn = "ABC_to_xy" /\ ret.status = "ok")
        => /\ Len(ret.value.data) = Len(args.ABC.data)
           /\ \A i \in 1..Len(args.ABC.data) :
                  ret.value.data[i] = C3_Row(args.ABC.data[i], args.xscale, args.yscale)

\* an unclosed row with all parts positive, both scales different from 1
C3_Witness ==
    /\ fn = "ABC_to_xy"
    /\ ret.status = "ok"
    /\ args.ABC.data[1] = <<Q(1, 1), Q(2, 1), Q(1, 1)>>
    /\ args.xscale = Q(2, 1)
    /\ args.yscale = QSqrt3Half
    /\ ret.value.data[1] = <<Q(1, 1), <<R(0), RNorm(1, 4)>> >>

\* C4: the number of entries along the last axis of the argument
Width(a) == IF a.ndim = 1 THEN Len(a.data) ELSE Len(a.data[1])
Wanted == IF fn = "ABC_to_xy" THEN 3 ELSE 2
Argument == IF fn = "ABC_to_xy" THEN args.ABC ELSE args.xy
ConvCall == fn \in {"ABC_to_xy", "xy_to_ABC"}

\* C4 as claimed: ABC_to_xy fails whenever the last dimension is not 3,
\* xy_to_ABC whenever it is not 2, and both succeed for the right arity.
C4_AsClaimed ==
    ConvCall => (ret.status = "raise" <=> Width(Argument) # Wanted)

\* C4 amended: both fail (AssertionError) whenever the last dimension is wrong
\* and succeed for 2-D arrays of rows of the right arity; a 1-D array of the
\* right length passes the assertion and fails in affine_transform
\* (IndexError).
C4_ShapePreconditions ==
    ConvCall =>
        /\ Width(Argument) # Wanted
               => (ret.status = "raise" /\ ret.exc = "AssertionError")
        /\ (Width(Argument) = Wanted /\ Argument.ndim = 2) => ret.status = "ok"
        /\ (Width(Argument) = Wanted /\ Argument.ndim = 1)
               => (ret.status = "raise" /\ ret.exc = "IndexError")

\* a single composition given as a 1-D array of 3 parts: refused
C4_Witness ==
    /\ fn = "ABC_to_xy"
    /\ args.ABC.ndim = 1
    /\ Width(args.ABC) = 3
    /\ ret.status = "raise"
    /\ ret.exc = "IndexError"


(***************************************************************************)
(* percentile_contour_values_from_meshz                                    *)
(***************************************************************************)
RECURSIVE RSum(_)
RSum(s) == IF s = <<>> THEN R(0) ELSE RAdd(s[1], RSum(Tail(s)))

RMaxOf(s) == s[CHOOSE i \in 1..Len(s) : \A j \in 1..Len(s) : RLe(s[j], s[i])]

RMinOf(s) == s[CHOOSE i \in 1..Len(s) : \A j \in 1..Len(s) : RLe(s[i], s[j])]

RECURSIVE Flatten(_)
Flatten(m) == IF m = <<>> THEN <<>> ELSE m[1] \o Flatten(Tail(m))

RECURSIVE SelectSeqR(_, _)
SelectSeqR(s, keep) ==
    IF s = <<>> THEN <<>>
    ELSE (IF keep[1] THEN <<s[1]>> ELSE <<>>) \o SelectSeqR(Tail(s), Tail(keep))

\* the stable ordering of the indices of s: by key, ties by position; with
\* desc = TRUE the keys descend (sorted(..., reverse=True) keeps ties in order)
Rank(s, i, desc) ==
    Cardinality({j \in 1..Len(s) :
        \/ (IF desc THEN RLt(s[i], s[j]) ELSE RLt(s[j], s[i]))
        \/ (s[j] = s[i] /\ j < i)}) + 1
ArgSort(s, desc) ==
    AsSeq([k \in 1..Len(s) |-> CHOOSE i \in 1..Len(s) : Rank(s, i, desc) = k])

SortedAsc(s) == LET ix == ArgSort(s, FALSE) IN AsSeq([k \in 1..Len(s) |-> s[ix[k]]])

\* sorted(percentiles, reverse=True)
SortedDesc(s) == LET ix == ArgSort(s, TRUE) IN AsSeq([k \in 1..Len(s) |-> s[ix[k]]])

\* np.linspace(0.0, stop, num), num >= 2
linspace(stop, num) ==
    AsSeq([i \in 1..num |-> RDiv(RMul(R(i - 1), stop), R(num - 1))])

\* ((z >= t) * z).sum() for one threshold t
MassAbove(z, t) ==
    LET c == Flatten(z)
    IN  RSum([k \in 1..Len(c) |-> IF RLe(t, c[k]) THEN c[k] ELSE R(0)])

interp1dKeepY(x, y) ==
    LET ix == ArgSort(x, FALSE)
    IN  [x |-> AsSeq([k \in 1..Len(x) |-> x[ix[k]]]), y |-> y]

\* scipy.interpolate.interp1d(x, y): x and y sorted by x with a stable sort
interp1d(x, y) ==
    LET ix == ArgSort(x, FALSE)
    IN  [x |-> AsSeq([k \in 1..Len(x) |-> x[ix[k]]]),
         y |-> AsSeq([k \in 1..Len(y) |-> y[ix[k]]])]

\* f(x_new) for one x_new inside [x[1], x[n]]: linear interpolation on the
\* sorted points.  For float arrays interp1d evaluates with numpy.interp: the
\* segment starts at the last point whose x is <= x_new, so an x_new equal to
\* an x shared by several points gets the y of the last of them.  An x_new
\* strictly between two different x does not depend on that choice.
InterpAt(f, v) ==
    LET n == Len(f.x)
        j == CHOOSE k \in 1..n :
                 RLe(f.x[k], v) /\ \A l \in (k + 1)..n : RLt(v, f.x[l])
    IN  IF j = n \/ f.x[j] = v THEN f.y[j]
        ELSE RAdd(f.y[j],
                  RMul(RDiv(RSub(f.y[j + 1], f.y[j]), RSub(f.x[j + 1], f.x[j])),
                       RSub(v, f.x[j])))

\* f(x_new) for an array: ValueError when a value is outside the range of x
\* (bounds_error)
InterpCallClamped(f, vs) ==
    LET clamp(v) == IF RLt(v, f.x[1]) THEN f.x[1]
                    ELSE IF RLt(f.x[Len(f.x)], v) THEN f.x[Len(f.x)] ELSE v
    IN  Ok(AsSeq([k \in 1..Len(vs) |-> InterpAt(f, clamp(vs[k]))]))

InterpCall(f, vs) ==
    IF \E k \in 1..Len(vs) : RLt(vs[k], f.x[1]) \/ RLt(f.x[Len(f.x)], vs[k])
    THEN Raise("ValueError")
    ELSE Ok(AsSeq([k \in 1..Len(vs) |-> InterpAt(f, vs[k])]))

\* np.isclose(a, 1.0): |a - 1| <= atol + rtol * 1, atol = 1e-8, rtol = 1e-5
IsCloseToOne(a) == Abs(a[1] - a[2]) * 100000000 <= 1001 * a[2]

Integrals(z, resolution) ==
    LET t == linspace(RMaxOf(Flatten(z)), resolution)
    IN  AsSeq([i \in 1..resolution |-> MassAbove(z, t[i])])

\* np.nanmax(non_one) when non_one is not empty
SubstituteMin(non_one) == RMinOf(non_one)

Substitute(non_one) == RMaxOf(non_one)

percentile_contour_values_from_meshz(z, percentiles, resolution) ==
    LET ps == SortedDesc(percentiles)
        t == linspace(RMaxOf(Flatten(z)), resolution)
        integral == Integrals(z, resolution)
        f == interp1d(integral, t)
        total == RSum(Flatten(z))
        t_contours == InterpCall(f, AsSeq([k \in 1..Len(ps) |-> RMul(ps[k], total)]))
    IN  IF t_contours.status = "ok"
        THEN [status |-> "ok", branch |-> "try",
              value |-> [labels |-> ps, contours |-> t_contours.value]]
        ELSE LET non_one == SelectSeqR(integral,
                                [i \in 1..resolution |-> ~IsCloseToOne(integral[i])])
             IN  IF non_one = <<>> THEN Raise("ValueError")
                 ELSE [status |-> "ok", branch |-> "except",
                       value |-> [labels |-> <<"min">>,
                                  contours |-> InterpCall(f, <<Substitute(non_one)>>).value]]

(***************************************************************************)
(* Inputs of the contour solver                                            *)
(***************************************************************************)
MaxZ == 4          \* a cell of z is k/ZDen, k in 0..MaxZ
ZDen == 4
MaxRes == 5        \* resolution is 2..MaxRes
PDen == 10         \* a percentile is k/PDen, k in 0..PDen+1
ZShape == <<1, 3>> \* rows and columns of z
PLens == {1, 2}    \* lengths of the percentile list

Cells == {RNorm(k, ZDen) : k \in 0..MaxZ}
Matrices == [1..ZShape[1] -> [1..ZShape[2] -> Cells]]
Percentiles == {RNorm(k, PDen) : k \in 0..(PDen + 1)}
PercentileLists == UNION {[1..n -> Percentiles] : n \in PLens}

Call_percentile_contour_values_from_meshz ==
    /\ fn = "none"
    /\ \E z \in Matrices, percentiles \in PercentileLists, resolution \in 2..MaxRes :
        /\ fn' = "percentile_contour_values_from_meshz"
        /\ args' = [z |-> z, percentiles |-> percentiles, resolution |-> resolution]
        /\ ret' = percentile_contour_values_from_meshz(z, percentiles, resolution)
        /\ prev' = NoCall

NextContour == Call_percentile_contour_values_from_meshz

SpecContour == Init /\ [][NextContour]_vars

(***************************************************************************)
(* Claims about the contour solver (SpecContour)                           *)
(***************************************************************************)
ContourCall == fn = "percentile_contour_values_from_meshz"
Achieved == ContourCall /\ ret.status = "ok" /\ ret.branch = "try"
Degenerate == ContourCall /\ ret.status = "ok" /\ ret.branch = "except"
TargetOf(p) == RMul(p, RSum(Flatten(args.z)))
ArgIntegrals == Integrals(args.z, args.resolution)
ArgThresholds == linspace(RMaxOf(Flatten(args.z)), args.resolution)

\* C5: for a fixed non-negative z and achievable percentiles p1 < p2, the
\* threshold returned for p2 is at most the threshold returned for p1.
C5_NonIncreasingInPercentile ==
    Achieved =>
        \A i, j \in 1..Len(ret.value.labels) :
            RLt(ret.value.labels[j], ret.value.labels[i])
                => RLe(ret.value.contours[i], ret.value.contours[j])

\* C6 as claimed: read in the order of the returned (descending) percentiles,
\* the thresholds form a non-increasing sequence.
C6_AsClaimed ==
    Achieved =>
        \A i, j \in 1..Len(ret.value.contours) :
            i < j => RLe(ret.value.contours[j], ret.value.contours[i])

\* C6 amended: read in that order, the mass enclosed at the returned threshold
\* (the sum of the cells of z that are >= it) is non-increasing; the thresholds
\* themselves generally rise along the list.
EnclosedMass(k) == MassAbove(args.z, ret.value.contours[k])

C6_EnclosedMassNonIncreasing ==
    Achieved =>
        /\ \A i, j \in 1..Len(ret.value.labels) :
               i < j => RLe(ret.value.labels[j], ret.value.labels[i])
        /\ \A i, j \in 1..Len(ret.value.contours) :
               i < j => RLe(EnclosedMass(j), EnclosedMass(i))

\* two percentiles given in ascending order come back descending, with a
\* strictly higher threshold and a strictly smaller mass for the second
C6_Witness ==
    /\ Achieved
    /\ Len(args.percentiles) = 2
    /\ RLt(args.percentiles[1], args.percentiles[2])
    /\ RLt(ret.value.labels[2], ret.value.labels[1])
    /\ RLt(ret.value.contours[1], ret.value.contours[2])
    /\ RLt(EnclosedMass(2), EnclosedMass(1))

\* C7: for an achievable percentile p the mass enclosed at threshold(p) equals
\* p * sum(z) up to the step of the threshold grid: it lies between the
\* integrals of two neighbouring candidate thresholds that bracket p * sum(z).
C7_MassWithinBracket ==
    Achieved =>
        LET I == ArgIntegrals
        IN  \A k \in 1..Len(ret.value.labels) :
                LET target == TargetOf(ret.value.labels[k])
                    mass == EnclosedMass(k)
                IN  \E i \in 1..(args.resolution - 1) :
                        /\ RLe(I[i + 1], target)
                        /\ RLe(target, I[i])
                        /\ RLe(I[i + 1], mass)
                        /\ RLe(mass, I[i])

\* a target strictly between two different integrals: the threshold is
\* interpolated between two candidates and encloses one of the two masses
C7_Witness ==
    /\ Achieved
    /\ args.resolution > 2
    /\ LET I == ArgIntegrals
           T == ArgThresholds
           target == TargetOf(ret.value.labels[1])
       IN  \E i \in 1..(args.resolution - 1) :
               /\ RLt(I[i + 1], target)
               /\ RLt(target, I[i])
               /\ RLt(T[i], ret.value.contours[1])
               /\ RLt(ret.value.contours[1], T[i + 1])
               /\ EnclosedMass(1) = I[i + 1]

\* C8: whenever some target p * sum(z) falls outside the range of the computed
\* integrals, the call returns a result labelled "min" and raises nothing.
SomeTargetOutside ==
    LET I == ArgIntegrals
        lo == RMinOf(I)
        hi == RMaxOf(I)
    IN  \E k \in 1..Len(args.percentiles) :
            \/ RLt(TargetOf(args.percentiles[k]), lo)
            \/ RLt(hi, TargetOf(args.percentiles[k]))

C8_NeverFailsHard ==
    (ContourCall /\ SomeTargetOutside)
        => (ret.status = "ok" /\ ret.branch = "except" /\ ret.value.labels = <<"min">>)

\* C9 as claimed: the threshold returned under "min" is a candidate threshold
\* whose integral is the minimum of the computed integrals.
C9_AsClaimed ==
    Degenerate =>
        LET I == ArgIntegrals
            T == ArgThresholds
            lo == RMinOf(I)
        IN  \E i \in 1..args.resolution :
                I[i] = lo /\ ret.value.contours = <<T[i]>>

\* C9 amended: it is a candidate threshold whose integral is the maximum of
\* the computed integrals that are not close to 1 (the low end of the
\* thresholds).
NonOne(I) == {v \in {I[i] : i \in 1..Len(I)} : ~IsCloseToOne(v)}

C9_MaxNonOneIntegral ==
    Degenerate =>
        LET I == ArgIntegrals
            T == ArgThresholds
            N == NonOne(I)
        IN  \E i \in 1..args.resolution :
                /\ I[i] \in N
                /\ \A v \in N : RLe(v, I[i])
                /\ ret.value.contours = <<T[i]>>

\* a percentile too small to reach, a smallest integral of 1 (left out as
\* close to 1) and a larger integral that is used instead
C9_Witness ==
    /\ Degenerate
    /\ ret.value.labels = <<"min">>
    /\ LET I == ArgIntegrals
       IN  /\ RLt(TargetOf(args.percentiles[1]), RMinOf(I))
           /\ RMinOf(I) = R(1)
           /\ \E v \in NonOne(I) : RLt(R(1), v)
    /\ RLt(ret.value.contours[1], RMaxOf(Flatten(args.z)))

\* the target integral of percentile p is within the computed integrals
Reachable(p) ==
    LET I == ArgIntegrals
    IN  RLe(RMinOf(I), TargetOf(p)) /\ RLe(TargetOf(p), RMaxOf(I))

\* how often v occurs in s
Count(s, v) == Cardinality({k \in 1..Len(s) : s[k] = v})

\* C16 as claimed: the label list and the threshold list have the length of
\* the requested percentile list; a percentile whose target integral can be
\* reached keeps its value as label, in descending order, and only one whose
\* target cannot be reached is labelled "min".
C16_AsClaimed ==
    (ContourCall /\ ret.status = "ok")
        => /\ Len(ret.value.labels) = Len(args.percentiles)
           /\ Len(ret.value.contours) = Len(args.percentiles)
           /\ LET ps == SortedDesc(args.percentiles)
              IN  \A k \in 1..Len(ps) :
                      IF Reachable(ps[k]) THEN ret.value.labels[k] = ps[k]
                      ELSE ret.value.labels[k] = "min"

\* C16 amended: when every target integral can be reached, the labels are the
\* requested percentiles in descending order and there is one threshold per
\* percentile.  When the target of at least one percentile cannot be reached,
\* the whole list is replaced by one contour: one label "min" and one
\* threshold, whatever the number of percentiles and also for those whose
\* target can be reached (and the call fails with ValueError when every
\* integral is close to 1).
C16_LevelSetShape ==
    ContourCall =>
        IF \A k \in 1..Len(args.percentiles) : Reachable(args.percentiles[k])
        THEN /\ Achieved
             /\ Len(ret.value.labels) = Len(args.percentiles)
             /\ Len(ret.value.contours) = Len(args.percentiles)
             /\ \A k \in 1..Len(args.percentiles) :
                    Count(ret.value.labels, args.percentiles[k])
                        = Count(args.percentiles, args.percentiles[k])
             /\ \A k \in 1..(Len(ret.value.labels) - 1) :
                    RLe(ret.value.labels[k + 1], ret.value.labels[k])
        ELSE IF NonOne(ArgIntegrals) = {}
        THEN ret.status = "raise" /\ ret.exc = "ValueError"
        ELSE /\ Degenerate
             /\ ret.value.labels = <<"min">>
             /\ Len(ret.value.contours) = 1

\* two percentiles, the target of one can be reached and that of the other
\* cannot: one contour, labelled "min", is returned
C16_Witness ==
    /\ Degenerate
    /\ Len(args.percentiles) = 2
    /\ \E k \in 1..2 : Reachable(args.percentiles[k])
    /\ \E k \in 1..2 : ~Reachable(args.percentiles[k])
    /\ ret.value.labels = <<"min">>
    /\ Len(ret.value.contours) = 1

(***************************************************************************)
(* ternary_heatmap: exceptions, modes and the margin                       *)
(***************************************************************************)
RaiseAt(e, line) == [status |-> "raise", exc |-> e, line |-> line]

\* a mode is a string, given as the sequence of its characters
IsInfix(sub, str) ==
    \E k \in 0..(Len(str) - Len(sub)) : SubSeq(str, k + 1, k + Len(sub)) = sub

DENSITY == <<"d", "e", "n", "s", "i", "t", "y">>
HISTOGRAM == <<"h", "i", "s", "t", "o", "g", "r", "a", "m">>
HIST == <<"h", "i", "s", "t">>
HEX == <<"h", "e", "x">>

\* rational comparison of two numbers without a sqrt(3) part
QLt(a, b) == RLt(a[1], b[1])
QMinOf(S) == CHOOSE m \in S : \A v \in S : ~QLt(v, m)

\* data[data > 0] of the closed data, as a set of values
PositivePartsAndZero(closed) ==
    {closed.data[i][j] : i \in 1..Len(closed.data), j \in 1..3}
        \ {v \in {closed.data[i][j] : i \in 1..Len(closed.data), j \in 1..3} :
               ~IsPositive(v) /\ v # QZero}

PositiveParts(closed) ==
    {closed.data[i][j] : i \in 1..Len(closed.data), j \in 1..3}
        \ {v \in {closed.data[i][j] : i \in 1..Len(closed.data), j \in 1..3} :
               ~IsPositive(v)}

\* if not force_margin: margin = min([margin, np.nanmin(data[data > 0])])
ClampedMarginAsGiven(margin, force_margin, closed) == margin

ClampedMargin(margin, force_margin, closed) ==
    IF force_margin THEN margin
    ELSE QMinOf({margin} \cup {QMinOf(PositiveParts(closed))})

\* the if/elif chain on mode: "kde", "hist" or the exception raised
DispatchExact(mode) ==
    IF mode = DENSITY THEN [status |-> "ok", path |-> "kde"]
    ELSE IF mode = HISTOGRAM THEN [status |-> "ok", path |-> "hist"]
    ELSE IF mode = HEX THEN RaiseAt("NotImplementedError", 291)
    ELSE RaiseAt("NotImplementedError", 293)

Dispatch(mode) ==
    IF mode = DENSITY THEN [status |-> "ok", path |-> "kde"]
    ELSE IF IsInfix(HIST, mode) THEN [status |-> "ok", path |-> "hist"]
    ELSE IF IsInfix(HEX, mode) THEN RaiseAt("NotImplementedError", 291)
    ELSE RaiseAt("NotImplementedError", 293)

(***************************************************************************)
(* Floats that may be NaN: a rational <<n, d>> with d > 0, or NaN.  Every  *)
(* operation on NaN gives NaN and every comparison with NaN is false.      *)
(***************************************************************************)
NaN == <<0, 0>>
IsNaN(a) == a[2] = 0
FAdd(a, b) == IF IsNaN(a) \/ IsNaN(b) THEN NaN ELSE RAdd(a, b)
FSub(a, b) == IF IsNaN(a) \/ IsNaN(b) THEN NaN ELSE RSub(a, b)
FMul(a, b) == IF IsNaN(a) \/ IsNaN(b) THEN NaN ELSE RMul(a, b)
FLt(a, b) == ~IsNaN(a) /\ ~IsNaN(b) /\ RLt(a, b)
FLe(a, b) == ~IsNaN(a) /\ ~IsNaN(b) /\ RLe(a, b)

\* np.nanmin, np.nanmax of a 1-D array: NaN when every element is NaN
nanmin(s) ==
    LET fin == {i \in 1..Len(s) : ~IsNaN(s[i])}
    IN  IF fin = {} THEN NaN
        ELSE s[CHOOSE i \in fin : \A j \in fin : RLe(s[i], s[j])]

nanmax(s) ==
    LET fin == {i \in 1..Len(s) : ~IsNaN(s[i])}
    IN  IF fin = {} THEN NaN
        ELSE s[CHOOSE i \in fin : \A j \in fin : RLe(s[j], s[i])]

\* column dim of a 2-D array given as a sequence of rows
Column(rows, dim) == AsSeq([i \in 1..Len(rows) |-> rows[i][dim]])

(***************************************************************************)
(* pyrolite.comp.codata.ilr, the default transform: the isometric          *)
(* log-ratio coordinates (ln a + ln b - 2 ln c) / sqrt(6) and              *)
(* (ln a - ln b) / sqrt(2) of a row (a, b, c).  Logarithms are fixed-point *)
(* numbers, round(1000 * log2(n)), and the positive constant factor of     *)
(* each coordinate is left out: bins and counts are the same for every     *)
(* positive rescaling of a coordinate.  A row with a part that is not      *)
(* positive has no finite logarithm and both its coordinates are NaN.      *)
(***************************************************************************)
LgTable ==
    <<0, 1000, 1585, 2000, 2322, 2585, 2807, 3000, 3170, 3322, 3459, 3585,
      3700, 3807, 3907, 4000, 4087, 4170, 4248, 4322, 4392, 4459, 4524, 4585,
      4644, 4700, 4755, 4807, 4858, 4907, 4954, 5000>>

\* the logarithm of the positive rational part of q
Lg(q) == LgTable[q[1][1]] - LgTable[q[1][2]]

ilrRow(row) ==
    IF \E i \in 1..3 : ~IsPositive(row[i]) THEN <<NaN, NaN>>
    ELSE <<R(Lg(row[1]) + Lg(row[2]) - 2 * Lg(row[3])), R(Lg(row[1]) - Lg(row[2]))>>

ilr(rows) == AsSeq([i \in 1..Len(rows) |-> ilrRow(rows[i])])

(***************************************************************************)
(* The boundary of what is rendered (lines 248-265)                        *)
(***************************************************************************)
Yscale(aspect) == IF aspect = "unit" THEN QOne ELSE QSqrt3Half

\* the three corner points, each inset by margin from a vertex
Bounds(margin) ==
    LET rest == QSub(QOne, QMul(Q(2, 1), margin))
    IN  << <<margin, margin, rest>>, <<margin, rest, margin>>, <<rest, margin, margin>> >>

\* splprep(per=True, s=0, k=1) through the closed loop of the corners and
\* splev at linspace(0, 1, 10000): 10000 points on the three straight edges.
\* Along an edge each log-ratio coordinate is monotone or has one maximum at
\* the middle of the edge, so that the extremes over an edge are at its ends
\* or at its midpoint: the samples kept are the corners and the midpoints of
\* the edges (the nearest of the 10000 samples are within 1/19998 of the
\* perimeter of them).
SplineSamples(xy) ==
    LET next(i) == (i % 3) + 1
        mid(i) == <<QMul(QHalf, QAdd(xy[i][1], xy[next(i)][1])),
                    QMul(QHalf, QAdd(xy[i][2], xy[next(i)][2]))>>
    IN  <<xy[1], mid(1), xy[2], mid(2), xy[3], mid(3)>>

\* bound_data.T: the boundary samples as compositions (AXtfm, spline, XAtfm)
BoundData(margin, yscale) ==
    Bind(ABC_to_xy(Arr2(Bounds(margin)), QOne, yscale).value.data, LAMBDA xy :
    Bind(SplineSamples(xy), LAMBDA samples :
        xy_to_ABC(Arr2(samples), QOne, yscale).value.data))

(***************************************************************************)
(* Bins (lines 117-127, 269-277)                                           *)
(***************************************************************************)
\* np.linspace(start, stop, num): num = 1 gives [start]
linspace_from(start, stop, num) ==
    AsSeq([i \in 1..num |->
              IF num = 1 THEN start
              ELSE FAdd(start, FMul(RNorm(i - 1, num - 1), FSub(stop, start)))])

\* step = (centres[1] - centres[0]) / 2;
\* np.append(centres - step, centres[-1] + step)
bin_centres_to_edges(centres) ==
    IF Len(centres) < 2 THEN RaiseAt("IndexError", 126)
    ELSE LET step == FMul(RNorm(1, 2), FSub(centres[2], centres[1]))
         IN  Ok(AsSeq([i \in 1..(Len(centres) + 1) |->
                    IF i <= Len(centres) THEN FSub(centres[i], step)
                    ELSE FAdd(centres[Len(centres)], step)]))

(***************************************************************************)
(* np.histogramdd(adata, bins=binedges) and H.T (lines 287-288)            *)
(***************************************************************************)
\* the bin of v among edges: bin i is [edges[i], edges[i+1]), the last bin
\* includes its right edge; 0 when v is in no bin (outside, or NaN)
BinOf(v, edges) ==
    LET n == Len(edges) - 1
        inside == {i \in 1..n :
                     /\ FLe(edges[i], v)
                     /\ (FLt(v, edges[i + 1]) \/ (i = n /\ v = edges[n + 1] /\ ~IsNaN(v)))}
    IN  IF inside = {} THEN 0 ELSE CHOOSE i \in inside : \A j \in inside : i <= j

\* H[i][j]: the rows in bin i of the first and bin j of the second coordinate
histogramdd(adata, binedges) ==
    AsSeq([i \in 1..(Len(binedges[1]) - 1) |->
        AsSeq([j \in 1..(Len(binedges[2]) - 1) |->
            R(Cardinality({k \in 1..Len(adata) :
                              /\ BinOf(adata[k][1], binedges[1]) = i
                              /\ BinOf(adata[k][2], binedges[2]) = j}))])])

HistTransposed(adata, binedges) ==
    Bind(histogramdd(adata, binedges), LAMBDA H :
        AsSeq([j \in 1..Len(H[1]) |-> AsSeq([i \in 1..Len(H) |-> H[i][j]])]))

\* if remove_background: H[H == 0] = np.nan
RemoveBackground(H, remove_background) ==
    IF ~remove_background THEN H
    ELSE AsSeq([i \in 1..Len(H) |->
             AsSeq([j \in 1..Len(H[i]) |-> IF H[i][j] = R(0) THEN NaN ELSE H[i][j]])])

\* lines 223-232: a class is instantiated without arguments and gives both
\* functions; a plain callable is the forward function and inverse_transform,
\* asserted callable, the inverse.  The result names the expressions bound to
\* tfm and itfm.
AdapterNoAssert(transform, inverse_callable) ==
    IF transform = "class"
    THEN Ok([tcls |-> "transform()", tfm |-> "tcls.transform",
             itfm |-> "tcls.inverse_transform"])
    ELSE IF transform = "class_with_args"
    THEN RaiseAt("TypeError", 225)
    ELSE Ok([tcls |-> "none", tfm |-> "transform", itfm |-> "inverse_transform"])

Adapter(transform, inverse_callable) ==
    IF transform = "class"
    THEN Ok([tcls |-> "transform()", tfm |-> "tcls.transform",
             itfm |-> "tcls.inverse_transform"])
    ELSE IF transform = "class_with_args"
    \* transform() on a class whose constructor has required parameters
    THEN RaiseAt("TypeError", 225)
    ELSE IF ~inverse_callable
    THEN RaiseAt("AssertionError", 231)
    ELSE Ok([tcls |-> "none", tfm |-> "transform", itfm |-> "inverse_transform"])

(***************************************************************************)
(* ternary_heatmap (lines 172-310).  The result holds the bin centres and  *)
(* edges per transformed dimension, the shapes of the edge and centre      *)
(* grids, and the matrix H.  In mode "density" the values of H are those   *)
(* of scipy's gaussian_kde, which are not modelled: H is then given by its *)
(* shape alone.  The display coordinates xe, ye, xi, yi of the grids       *)
(* (lines 295-304) are given by their shapes.  When no boundary sample has *)
(* finite coordinates (a margin of 0 puts the boundary on the edges of the *)
(* triangle), the bounding box is NaN in exact arithmetic and decided by   *)
(* rounding in floats: the counts are then not modelled either.            *)
(***************************************************************************)
ternary_heatmap(data, bins, margin, force_margin, remove_background, transform, inverse_callable, mode, aspect) ==
    Bind(Adapter(transform, inverse_callable), LAMBDA adapter :
    IF adapter.status = "raise" THEN adapter ELSE
    Bind(close(data), LAMBDA closed :
    IF ~force_margin /\ PositiveParts(closed) = {} THEN RaiseAt("ValueError", 244) ELSE
    Bind(ClampedMargin(margin, force_margin, closed), LAMBDA used :
    Bind(BoundData(used, Yscale(aspect)), LAMBDA bound_data :
    Bind(ilr(bound_data), LAMBDA abounds :
    Bind(ilr(closed.data), LAMBDA adata :
    Bind(AsSeq([dim \in 1..Len(adata[1]) |->
             Bind(Column(abounds, dim), LAMBDA col :
                 linspace_from(nanmin(col), nanmax(col), bins))]), LAMBDA centres :
    Bind(AsSeq([dim \in 1..Len(centres) |-> bin_centres_to_edges(centres[dim])]), LAMBDA edges :
    IF \E dim \in 1..Len(edges) : edges[dim].status = "raise"
    THEN RaiseAt("IndexError", 276) ELSE
    Bind(AsSeq([dim \in 1..Len(edges) |-> edges[dim].value]), LAMBDA binedges :
    Bind(Dispatch(mode), LAMBDA H :
    IF H.status = "raise" THEN H ELSE
    Bind(\A dim \in 1..Len(centres) : ~IsNaN(centres[dim][1]), LAMBDA finite :
        Ok([path |-> H.path,
            tfm |-> adapter.value.tfm,
            itfm |-> adapter.value.itfm,
            margin |-> used,
            bounds |-> Bounds(used),
            bins |-> centres,
            binedges |-> binedges,
            e_shape |-> <<Len(binedges[2]), Len(binedges[1])>>,
            c_shape |-> <<Len(centres[2]), Len(centres[1])>>,
            h_shape |-> <<Len(centres[1]), Len(centres[2])>>,
            finite |-> finite,
            H |-> IF H.path = "hist" /\ finite
                  THEN Bind(HistTransposed(adata, binedges), LAMBDA Ht :
                           RemoveBackground(Ht, remove_background))
                  ELSE <<>>]))))))))))))

(***************************************************************************)
(* Inputs of ternary_heatmap                                               *)
(***************************************************************************)
MaxBins == 3       \* bins is 1..MaxBins

Modes ==
    {DENSITY, HISTOGRAM, HIST, HEX,
     <<"h", "e", "x", "b", "i", "n">>,
     <<"h", "i", "s", "t", "2", "d">>,
     <<"k", "d", "e">>,
     <<"D", "e", "n", "s", "i", "t", "y">>,
     <<>>}
Margins == {Q(1, 4), Q(1, 8), QZero}
\* rows at a vertex, on an edge, at the centre, and towards a vertex
HeatRows ==
    {<<QOne, QZero, QZero>>, <<QZero, QOne, QOne>>, <<QOne, QOne, QOne>>,
     <<QOne, QOne, Q(2, 1)>>, <<Q(2, 1), QOne, QOne>>, <<QOne, QOne, Q(6, 1)>>}
HeatData == {Arr2(d) : d \in SeqsOver(HeatRows)}
Aspects == {"unit", "eq"}
\* transform given as a class (with a constructor that takes no argument, or
\* one that requires some) or as a plain callable, each with or without a
\* callable inverse_transform
Transforms ==
    {<<"class", TRUE>>, <<"class", FALSE>>, <<"class_with_args", TRUE>>,
     <<"callable", TRUE>>, <<"callable", FALSE>>}

\* The calls made.  With the default transform pair (ilr and inverse_ilr,
\* plain callables) and the two documented modes: every data set, number of
\* bins, margin, aspect and flag.  With each kind of transform and each mode:
\* the data sets of one row, with the default flags and aspect.
HeatInputs ==
    {[data |-> data, bins |-> bins, margin |-> margin,
      force_margin |-> force_margin, remove_background |-> remove_background,
      transform |-> "callable", inverse_callable |-> TRUE, mode |-> mode,
      aspect |-> aspect] :
        data \in HeatData, bins \in 1..MaxBins, margin \in Margins,
        force_margin \in BOOLEAN, remove_background \in BOOLEAN,
        mode \in {HISTOGRAM, DENSITY}, aspect \in Aspects}
    \cup
    {[data |-> Arr2(<<row>>), bins |-> bins, margin |-> margin,
      force_margin |-> FALSE, remove_background |-> TRUE,
      transform |-> tf[1], inverse_callable |-> tf[2], mode |-> mode,
      aspect |-> "eq"] :
        row \in HeatRows, bins \in 1..MaxBins, margin \in Margins,
        tf \in Transforms, mode \in Modes}

Call_ternary_heatmap ==
    /\ fn = "none"
    /\ \E in \in HeatInputs :
        /\ fn' = "ternary_heatmap"
        /\ args' = in
        /\ ret' = ternary_heatmap(in.data, in.bins, in.margin, in.force_margin,
                                  in.remove_background, in.transform,
                                  in.inverse_callable, in.mode, in.aspect)
        /\ prev' = NoCall

NextHeatmap == Call_ternary_heatmap

SpecHeatmap == Init /\ [][NextHeatmap]_vars

(***************************************************************************)
(* Claims about ternary_heatmap (SpecHeatmap)                              *)
(***************************************************************************)
HeatmapCall == fn = "ternary_heatmap"
\* no step before the mode dispatch (lines 281-293) has raised
DispatchReached == HeatmapCall /\ (ret.status = "raise" => ret.line >= 281)
NotImplemented == ret.status = "raise" /\ ret.exc = "NotImplementedError"

\* C10 as claimed: "density" selects the kernel-density path, "histogram" the
\* histogram path, "hex" raises a not-implemented error and every other mode
\* raises an unsupported-mode error and returns no grid.
C10_AsClaimed ==
    DispatchReached =>
        /\ args.mode = DENSITY => (ret.status = "ok" /\ ret.value.path = "kde")
        /\ args.mode = HISTOGRAM => (ret.status = "ok" /\ ret.value.path = "hist")
        /\ args.mode = HEX => NotImplemented
        /\ args.mode \notin {DENSITY, HISTOGRAM, HEX} => NotImplemented

\* C10 amended: "density" selects the kernel-density path; every other mode
\* that contains "hist" ("histogram", but also "hist", "hist2d") selects the
\* histogram path and returns a grid; every remaining mode, "hex" included,
\* raises NotImplementedError and returns no grid.
C10_ModeDispatch ==
    DispatchReached =>
        /\ args.mode = DENSITY => (ret.status = "ok" /\ ret.value.path = "kde")
        /\ (args.mode # DENSITY /\ IsInfix(HIST, args.mode))
               => (ret.status = "ok" /\ ret.value.path = "hist")
        /\ (args.mode # DENSITY /\ ~IsInfix(HIST, args.mode)) => NotImplemented

\* mode "hist" is not one of the documented modes and returns a histogram grid
C10_Witness ==
    /\ HeatmapCall
    /\ args.mode = HIST
    /\ ret.status = "ok"
    /\ ret.value.path = "hist"

\* the call with the other value of "inverse_transform is callable"
OtherInverse ==
    ternary_heatmap(args.data, args.bins, args.margin, args.force_margin,
                    args.remove_background, args.transform,
                    ~args.inverse_callable, args.mode, args.aspect)

\* C11: a plain callable transform with an inverse_transform that is not
\* callable fails with the assertion of line 231, before any grid is computed;
\* with a callable inverse the pair (transform, inverse_transform) is used and
\* nothing fails before line 233.  A class is instantiated without arguments,
\* its transform and inverse_transform methods are used, and the result of the
\* call is the same whether or not inverse_transform is callable.
C11_AdapterPrecondition ==
    HeatmapCall =>
        /\ (args.transform = "callable" /\ ~args.inverse_callable)
               => (ret.status = "raise" /\ ret.exc = "AssertionError" /\ ret.line = 231)
        /\ (args.transform = "callable" /\ args.inverse_callable)
               => /\ ret.status = "raise" => ret.line > 232
                  /\ ret.status = "ok" => (ret.value.tfm = "transform"
                                           /\ ret.value.itfm = "inverse_transform")
        /\ args.transform = "class"
               => /\ ret = OtherInverse
                  /\ ret.status = "raise" => ret.line > 232
                  /\ ret.status = "ok" => (ret.value.tfm = "tcls.transform"
                                           /\ ret.value.itfm = "tcls.inverse_transform")
        /\ args.transform = "class_with_args"
               => (ret.status = "raise" /\ ret.exc = "TypeError" /\ ret.line = 225)

\* a class given together with an inverse_transform that is not callable
\* returns a grid made with the methods of its instance
C11_Witness ==
    /\ HeatmapCall
    /\ args.transform = "class"
    /\ ~args.inverse_callable
    /\ ret.status = "ok"
    /\ ret.value.itfm = "tcls.inverse_transform"

\* every part of every row of the data is positive
AllPositive(data) ==
    \A i \in 1..Len(data.data) : \A j \in 1..3 : IsPositive(data.data[i][j])

\* the sum of the cells of H that are not NaN
NanSum(H) ==
    LET flat == Flatten(H)
    IN  RSum(SelectSeqR(flat, AsSeq([k \in 1..Len(flat) |-> ~IsNaN(flat[k])])))

\* the transform adapter (lines 223-232) has not raised
Adapted == HeatmapCall /\ (ret.status = "raise" => ret.line > 232)

\* the histogram of rows that are all positive
HistogramOfPositiveRows ==
    /\ Adapted
    /\ args.mode = HISTOGRAM
    /\ AllPositive(args.data)

\* C12 as claimed: in mode "histogram", for rows whose three parts are all
\* positive, the cells of the returned matrix that are not NaN sum to the
\* number of rows.
C12_AsClaimed ==
    (HistogramOfPositiveRows /\ ret.status = "ok" /\ ret.value.finite)
        => NanSum(ret.value.H) = R(Len(args.data.data))

\* C12 amended: in mode "histogram", with a transform that the adapter
\* accepts, force_margin not set and a margin above 0 and below 1/3, for rows
\* whose three parts are all positive: with bins >= 2 every
\* row is in a bin of each coordinate and the cells of the returned matrix
\* that are not NaN sum to the number of rows; with bins = 1 the call raises
\* IndexError and returns no matrix.
C12_CountConservation ==
    (HistogramOfPositiveRows /\ ~args.force_margin
         /\ QLt(QZero, args.margin) /\ QLt(args.margin, Q(1, 3)))
        => IF args.bins < 2
           THEN ret.status = "raise" /\ ret.exc = "IndexError"
           ELSE /\ ret.status = "ok"
                /\ ret.value.finite
                /\ LET adata == ilr(close(args.data).data)
                   IN  \A k \in 1..Len(adata) : \A dim \in 1..2 :
                           BinOf(adata[k][dim], ret.value.binedges[dim]) # 0
                /\ NanSum(ret.value.H) = R(Len(args.data.data))

\* two rows, one of them nearer to a vertex than the requested margin: the
\* margin is clamped, both rows are counted and the empty cells are NaN
C12_Witness ==
    /\ HistogramOfPositiveRows
    /\ ~args.force_margin
    /\ Len(args.data.data) = 2
    /\ ret.status = "ok"
    /\ QLt(ret.value.margin, args.margin)
    /\ NanSum(ret.value.H) = R(2)
    /\ \E i \in 1..Len(ret.value.H) : \E j \in 1..Len(ret.value.H[i]) :
           IsNaN(ret.value.H[i][j])

\* centre i is the midpoint of edges i and i + 1
CentresAreMidpoints(centres, edges) ==
    \A i \in 1..Len(centres) :
        centres[i] = FMul(RNorm(1, 2), FAdd(edges[i], edges[i + 1]))

\* the grid of a call: n centres and n + 1 edges per transformed dimension,
\* and the shapes they give to the returned grids and matrix
GridOf(n) ==
    /\ ret.status = "ok"
    /\ \A dim \in 1..2 :
        /\ Len(ret.value.bins[dim]) = n
        /\ Len(ret.value.binedges[dim]) = n + 1
        /\ ret.value.finite
               => CentresAreMidpoints(ret.value.bins[dim], ret.value.binedges[dim])
    /\ ret.value.e_shape = <<n + 1, n + 1>>
    /\ ret.value.c_shape = <<n, n>>
    /\ ret.value.h_shape = <<n, n>>

\* C13: for every bins = n >= 1 (with a transform the adapter accepts and a
\* supported mode) ternary_heatmap builds n bin centres and n + 1 bin edges
\* per transformed dimension, each centre the midpoint of two consecutive
\* edges, and returns edge grids of shape (n+1, n+1) and a matrix and centre
\* grids of shape (n, n).
C13_GridShapes ==
    (Adapted /\ args.mode \in {HISTOGRAM, DENSITY} /\ args.bins >= 1)
        => GridOf(args.bins)

\* the same for bins = n >= 2 only
C13_GridShapesFromTwo ==
    (Adapted /\ args.mode \in {HISTOGRAM, DENSITY} /\ args.bins >= 2)
        => GridOf(args.bins)

\* the smallest positive part of the closed data
SmallestPositivePart ==
    LET closed == close(args.data).data
        parts == {closed[i][j] : i \in 1..Len(closed), j \in 1..3}
    IN  CHOOSE v \in parts :
            IsPositive(v) /\ \A w \in parts : IsPositive(w) => ~QLt(w, v)

\* every part of every corner point of the boundary is positive
CornersInside == \A i \in 1..3 : \A j \in 1..3 : IsPositive(ret.value.bounds[i][j])

\* the corner points are those of the margin used
CornersOf(margin) ==
    \A i \in 1..3 : \A j \in 1..3 :
        ret.value.bounds[i][j] =
            IF i + j = 4 THEN QSub(QOne, QAdd(margin, margin)) ELSE margin

\* C15 as claimed: without force_margin, for every requested margin, 0
\* included, the margin used is the minimum of the requested margin and the
\* smallest positive closed part, it is strictly positive and the corner
\* points are strictly inside the triangle; with force_margin the requested
\* margin is used unchanged.
C15_AsClaimed ==
    (HeatmapCall /\ ret.status = "ok")
        => /\ CornersOf(ret.value.margin)
           /\ args.force_margin => ret.value.margin = args.margin
           /\ ~args.force_margin
                  => /\ ret.value.margin =
                            IF QLt(args.margin, SmallestPositivePart)
                            THEN args.margin ELSE SmallestPositivePart
                     /\ IsPositive(ret.value.margin)
                     /\ CornersInside

\* C15 amended: without force_margin the margin used is the minimum of the
\* requested margin and the smallest positive closed part; it is never above
\* the requested margin, and it is strictly positive exactly when the
\* requested margin is: a requested margin of 0 stays 0 and the corner points
\* are then the vertices of the triangle.  The corner points are strictly
\* inside the triangle exactly when the margin used is above 0 and below 1/2.
\* With force_margin the requested margin is used unchanged.
C15_MarginClamp ==
    (HeatmapCall /\ ret.status = "ok")
        => /\ CornersOf(ret.value.margin)
           /\ CornersInside <=> (QLt(QZero, ret.value.margin)
                                 /\ QLt(ret.value.margin, QHalf))
           /\ args.force_margin => ret.value.margin = args.margin
           /\ ~args.force_margin
                  => /\ ret.value.margin =
                            IF QLt(args.margin, SmallestPositivePart)
                            THEN args.margin ELSE SmallestPositivePart
                     /\ ~QLt(args.margin, ret.value.margin)
                     /\ IsPositive(ret.value.margin) <=> IsPositive(args.margin)
                     /\ args.margin = QZero
                            => (ret.value.margin = QZero /\ ~CornersInside)

\* data with a row at a vertex and a row nearer to a vertex than the
\* requested margin: the margin used is the smallest positive part
C15_Witness ==
    /\ HeatmapCall
    /\ ~args.force_margin
    /\ ret.status = "ok"
    /\ \E i \in 1..Len(args.data.data) : \E j \in 1..3 : args.data.data[i][j] = QZero
    /\ ret.value.margin = SmallestPositivePart
    /\ QLt(ret.value.margin, args.margin)
    /\ CornersInside

(***************************************************************************)
(* alphamelts.meltsfile: str methods, formatting and numeric coercion      *)
(*                                                                         *)
(* A str is the sequence of its characters.  A value of a record is        *)
(* [t, m, e, s]: t = "int" is the integer m; t = "float" is the decimal    *)
(* m / 10^e with e >= 1 (a float whose repr is plain decimal notation);    *)
(* t = "nan" is a missing value; t = "str" is the string s; t = "none" is  *)
(* the None pandas puts in a short row.                                    *)
(***************************************************************************)
IntVal(n) == [t |-> "int", m |-> n, e |-> 0, s |-> <<>>]
FloatVal(m, e) == [t |-> "float", m |-> m, e |-> e, s |-> <<>>]
NanVal == [t |-> "nan", m |-> 0, e |-> 0, s |-> <<>>]
StrVal(s) == [t |-> "str", m |-> 0, e |-> 0, s |-> s]
NoneVal == [t |-> "none", m |-> 0, e |-> 0, s |-> <<>>]

\* pd.isnull(v)
isnull(v) == v.t \in {"nan", "none"}

SetMin(S) == CHOOSE x \in S : \A y \in S : x <= y

UpperCase == <<"A", "B", "C", "D", "E", "F", "G", "H", "I", "J", "K", "L", "M", "N", "O", "P", "Q", "R", "S", "T", "U", "V", "W", "X", "Y", "Z">>
LowerCase == <<"a", "b", "c", "d", "e", "f", "g", "h", "i", "j", "k", "l", "m", "n", "o", "p", "q", "r", "s", "t", "u", "v", "w", "x", "y", "z">>
Digits == <<"0", "1", "2", "3", "4", "5", "6", "7", "8", "9">>

IsSpace(c) == c \in {" ", "\t", "\n", "\r"}

\* str.lower()
lower(s) ==
    AsSeq([i \in 1..Len(s) |->
        IF \E k \in 1..26 : UpperCase[k] = s[i]
        THEN LowerCase[CHOOSE k \in 1..26 : UpperCase[k] = s[i]]
        ELSE s[i]])

\* str.strip()
strip(s) ==
    LET keep == {i \in 1..Len(s) : ~IsSpace(s[i])}
    IN  IF keep = {} THEN <<>>
        ELSE SubSeq(s, SetMin(keep), CHOOSE i \in keep : \A j \in keep : j <= i)

\* str.split(sep): the pieces between the occurrences of sep, found left to
\* right, empty pieces kept
RECURSIVE split(_, _)
split(s, sep) ==
    LET hits == {i \in 1..(Len(s) - Len(sep) + 1) : SubSeq(s, i, i + Len(sep) - 1) = sep}
    IN  IF hits = {} THEN <<s>>
        ELSE LET i == SetMin(hits)
             IN  <<SubSeq(s, 1, i - 1)>> \o split(SubSeq(s, i + Len(sep), Len(s)), sep)

\* str.split(): the maximal runs of characters that are not whitespace
RECURSIVE split_whitespace(_)
split_whitespace(s) ==
    LET t == strip(s)
        gaps == {i \in 1..Len(t) : IsSpace(t[i])}
    IN  IF t = <<>> THEN <<>>
        ELSE IF gaps = {} THEN <<t>>
        ELSE LET i == SetMin(gaps)
             IN  <<SubSeq(t, 1, i - 1)>> \o split_whitespace(SubSeq(t, i + 1, Len(t)))

\* str.splitlines(): lines end at "\n", "\r\n" or "\r"; no empty last line
RECURSIVE splitlines(_)
splitlines(s) ==
    LET ends == {i \in 1..Len(s) : s[i] \in {"\n", "\r"}}
    IN  IF s = <<>> THEN <<>>
        ELSE IF ends = {} THEN <<s>>
        ELSE LET i == SetMin(ends)
                 j == IF s[i] = "\r" /\ i < Len(s) /\ s[i + 1] = "\n" THEN i + 1 ELSE i
             IN  <<SubSeq(s, 1, i - 1)>> \o splitlines(SubSeq(s, j + 1, Len(s)))

\* sep.join(lines)
RECURSIVE join(_, _)
join(sep, parts) ==
    IF parts = <<>> THEN <<>>
    ELSE IF Len(parts) = 1 THEN parts[1]
    ELSE parts[1] \o sep \o join(sep, Tail(parts))

RECURSIVE Pow10(_)
Pow10(e) == IF e = 0 THEN 1 ELSE 10 * Pow10(e - 1)

RECURSIVE FormatNat(_)
FormatNat(n) ==
    IF n < 10 THEN <<Digits[n + 1]>>
    ELSE FormatNat(n \div 10) \o <<Digits[(n % 10) + 1]>>

\* the e digits of n, zero-padded on the left
RECURSIVE FormatFraction(_, _)
FormatFraction(n, e) ==
    IF e = 0 THEN <<>>
    ELSE FormatFraction(n \div 10, e - 1) \o <<Digits[(n % 10) + 1]>>

\* "{}".format(v): str(v) of an int, repr of a float, "nan", or the string
FormatValue(v) ==
    LET whole == (IF v.m < 0 THEN <<"-">> ELSE <<>>) \o FormatNat(Abs(v.m) \div Pow10(v.e))
    IN  IF v.t = "str" THEN v.s
        ELSE IF v.t = "nan" THEN <<"n", "a", "n">>
        ELSE IF v.t = "none" THEN <<"N", "o", "n", "e">>
        ELSE IF v.t = "float"
        THEN whole \o <<".">> \o FormatFraction(Abs(v.m) % Pow10(v.e), v.e)
        ELSE whole

IsDigits(s) == s # <<>> /\ \A i \in 1..Len(s) : \E k \in 1..10 : Digits[k] = s[i]

RECURSIVE ParseNat(_)
ParseNat(s) ==
    IF s = <<>> THEN 0
    ELSE 10 * ParseNat(SubSeq(s, 1, Len(s) - 1))
             + (CHOOSE k \in 0..9 : Digits[k + 1] = s[Len(s)])

\* the float m / 10^e without trailing zeros in the fraction
RECURSIVE FloatOf(_, _)
FloatOf(m, e) ==
    IF e > 1 /\ m % 10 = 0 THEN FloatOf(m \div 10, e - 1) ELSE FloatVal(m, e)

\* pd.to_numeric(x, errors="ignore") of one value: the number a string
\* spells (optional sign, digits, optional point), else the value itself
to_numeric_value(v) ==
    IF v.t # "str" THEN v
    ELSE LET signed == v.s # <<>> /\ v.s[1] \in {"-", "+"}
             sign == IF v.s # <<>> /\ v.s[1] = "-" THEN -1 ELSE 1
             body == IF signed THEN Tail(v.s) ELSE v.s
             dot == split(body, <<".">>)
         IN  IF IsDigits(body) THEN IntVal(sign * ParseNat(body))
             ELSE IF /\ Len(dot) = 2
                     /\ dot[1] \o dot[2] # <<>>
                     /\ IsDigits(<<"0">> \o dot[1] \o dot[2])
             THEN FloatOf(sign * ParseNat(dot[1] \o dot[2] \o (IF dot[2] = <<>> THEN <<"0">> ELSE <<>>)),
                          IF dot[2] = <<>> THEN 1 ELSE Len(dot[2]))
             ELSE IF lower(body) = <<"n", "a", "n">> THEN NanVal
             ELSE v

\* the keys of a record (ser.index) and the value at a key (ser[k])
Index(ser) == AsSeq([i \in 1..Len(ser) |-> ser[i][1]])
HasKey(ser, k) == \E i \in 1..Len(ser) : ser[i][1] = k
ValueAt(ser, k) == ser[CHOOSE i \in 1..Len(ser) : ser[i][1] = k][2]

(***************************************************************************)
(* to_meltsfile / from_meltsfile                                           *)
(*                                                                         *)
(* A record (pandas Series) is a sequence of <<key, value>> pairs with     *)
(* distinct keys.                                                          *)
(***************************************************************************)
TITLE == <<"T", "i", "t", "l", "e">>
TITLE_LOWER == <<"t", "i", "t", "l", "e">>
INITIAL_COMPOSITION == <<"I", "n", "i", "t", "i", "a", "l", " ", "C", "o", "m", "p", "o", "s", "i", "t", "i", "o", "n">>
INITIAL_TRACE == <<"I", "n", "i", "t", "i", "a", "l", " ", "T", "r", "a", "c", "e">>
MODE == <<"M", "o", "d", "e">>
COLON_SPACE == <<":", " ">>

\* members of geochem.ind.__common_oxides__ and __common_elements__
CommonOxides == {<<"S", "i", "O", "2">>, <<"M", "g", "O">>, <<"C", "a", "O">>}
CommonElements == {<<"L", "a">>, <<"Y", "b">>}

\* " ".join([subparam, param]) in the order of the two loops
TPKeys ==
    LET params == <<<<"T", "e", "m", "p", "e", "r", "a", "t", "u", "r", "e">>, <<"P", "r", "e", "s", "s", "u", "r", "e">>>>
        subparams == <<<<"I", "n", "i", "t", "i", "a", "l">>, <<"F", "i", "n", "a", "l">>, <<"I", "n", "c", "r", "e", "m", "e", "n", "t">>>>
    IN  AsSeq([i \in 1..6 |->
            join(<<" ">>, <<subparams[((i - 1) % 3) + 1], params[((i - 1) \div 3) + 1]>>)])

PathKeys == <<<<"d", "p", "/", "d", "t">>, <<"l", "o", "g", " ", "f", "o", "2", " ", "p", "a", "t", "h">>, <<"l", "o", "g", " ", "f", "o", "2", " ", "d", "e", "l", "t", "a">>>>

\* "{}: {}".format(k, v)
KeyValueLine(k, v) == k \o COLON_SPACE \o FormatValue(v)

\* "Initial Composition: {} {}".format(k, v)
ComponentLine(prefix, k, v) == prefix \o COLON_SPACE \o k \o <<" ">> \o FormatValue(v)

\* the lines of the components of ser that are in the list and not
\* excluded, in index order, without the null values
ComponentLines(ser, prefix, list, exclude) ==
    LET chosen(p) == p[1] \in list /\ p[1] \notin exclude /\ ~isnull(p[2])
        kept == SelectSeq(ser, chosen)
    IN  AsSeq([i \in 1..Len(kept) |-> ComponentLine(prefix, kept[i][1], kept[i][2])])

TPLines(ser) ==
    LET present(k) == HasKey(ser, k) /\ ~isnull(ValueAt(ser, k))
        kept == SelectSeq(TPKeys, present)
    IN  AsSeq([i \in 1..Len(kept) |-> KeyValueLine(kept[i], ValueAt(ser, kept[i]))])

\* the first key of the index that equals k up to case
PathLines(ser) ==
    LET idx == Index(ser)
        matches(k) == {i \in 1..Len(idx) : lower(idx[i]) = lower(k)}
        present(k) == matches(k) # {} /\ ~isnull(ser[SetMin(matches(k))][2])
        kept == SelectSeq(PathKeys, present)
    IN  AsSeq([i \in 1..Len(kept) |-> KeyValueLine(kept[i], ser[SetMin(matches(kept[i]))][2])])

to_meltsfile(ser, linesep, writetraces, modes, exclude) ==
    IF ~HasKey(ser, TITLE) /\ ~HasKey(ser, TITLE_LOWER)
    THEN RaiseAt("AssertionError", 47)
    ELSE LET ttl == IF HasKey(ser, TITLE) THEN ValueAt(ser, TITLE)
                    ELSE ValueAt(ser, TITLE_LOWER)
             lines ==
                 <<KeyValueLine(TITLE, ttl)>>
                 \o ComponentLines(ser, INITIAL_COMPOSITION, CommonOxides, exclude)
                 \o (IF writetraces
                     THEN ComponentLines(ser, INITIAL_TRACE, CommonElements, exclude)
                     ELSE <<>>)
                 \o TPLines(ser)
                 \o PathLines(ser)
                 \o AsSeq([i \in 1..Len(modes) |-> KeyValueLine(MODE, StrVal(modes[i]))])
         IN  Ok(join(linesep, lines))

\* open(filename) of a str that names no file: FileNotFoundError, unless a
\* component of the path is longer than NAME_MAX bytes or the path is
\* PATH_MAX bytes or more, which is OSError (ENAMETOOLONG)
NAME_MAX == 255
PATH_MAX == 4096
NameTooLong(text) ==
    \/ Len(text) >= PATH_MAX
    \/ \E i \in 1..Len(split(text, <<"/">>)) : Len(split(text, <<"/">>)[i]) > NAME_MAX

\* lines 129-138: the text to parse, from a BytesIO, a StringIO or a str;
\* a str that names an existing file is opened and then read as a file
ReadSource(filename, file_exists) ==
    IF filename.kind \in {"BytesIO", "StringIO"} THEN Ok(filename.text)
    ELSE IF NameTooLong(filename.text) THEN RaiseAt("OSError", 135)
    ELSE IF file_exists THEN RaiseAt("AttributeError", 136)
    ELSE Ok(filename.text)

\* lines 140-146
FormatLines(file) ==
    LET nonblank(line) == strip(line) # <<>>
        kept == SelectSeq(splitlines(file), nonblank)
        lines == AsSeq([i \in 1..Len(kept) |-> split(kept[i], COLON_SPACE)])
        component(a) == lower(strip(a[1])) \in {lower(INITIAL_COMPOSITION), lower(INITIAL_TRACE)}
    IN  IF \E i \in 1..Len(lines) : component(lines[i]) /\ Len(lines[i]) < 2
        THEN RaiseAt("IndexError", 144)
        ELSE Ok(AsSeq([i \in 1..Len(lines) |->
                 IF component(lines[i]) THEN split_whitespace(strip(lines[i][2]))
                 ELSE AsSeq([j \in 1..Len(lines[i]) |-> strip(lines[i][j])])]))

\* lines 147-149: column 0 is the index, column 1 the values (None where a
\* row is short), each value coerced on its own
Records(fmtlines) ==
    IF \A i \in 1..Len(fmtlines) : Len(fmtlines[i]) < 2
    THEN RaiseAt("KeyError", 148)
    ELSE Ok(AsSeq([i \in 1..Len(fmtlines) |->
             << IF Len(fmtlines[i]) >= 1 THEN fmtlines[i][1] ELSE <<>>,
                IF Len(fmtlines[i]) >= 2 THEN to_numeric_value(StrVal(fmtlines[i][2]))
                ELSE NoneVal >>]))

from_meltsfile(filename, file_exists) ==
    LET file == ReadSource(filename, file_exists)
        fmtlines == FormatLines(file.value)
    IN  IF file.status = "raise" THEN file
        ELSE IF fmtlines.status = "raise" THEN fmtlines
        ELSE Records(fmtlines.value)

\* inputs
MeltsValues == {IntVal(1200), FloatVal(502, 1), NanVal}
Titles == {<<"A">>, <<"S", "a", "m", "p", "l", "e", " ", "1">>, <<"2", "0", "1", "9">>, <<"1", ".", "5", "0">>, <<"A", ":", " ", "B">>, <<" ", "A">>}

\* a field of a record: absent, or the pair of the key and a value
Field(k, values) == {<<>>} \cup {<<<<k, v>>>> : v \in values}

\* records with a title and up to three fields; records with every oxide
\* and element and the first n of the six temperature and pressure fields,
\* all of one value; a record without a title
MeltsRecords ==
    LET components(v) ==
            <<<<<<"S", "i", "O", "2">>, v>>, <<<<"M", "g", "O">>, v>>, <<<<"C", "a", "O">>, v>>, <<<<"L", "a">>, v>>, <<<<"Y", "b">>, v>>>>
    IN  {<<<<tk, StrVal(ttl)>>>> \o a \o b \o c :
            tk \in {TITLE, TITLE_LOWER}, ttl \in Titles,
            a \in Field(<<"S", "i", "O", "2">>, MeltsValues), b \in Field(<<"L", "a">>, MeltsValues),
            c \in Field(TPKeys[1], MeltsValues)}
        \cup {<<<<TITLE, StrVal(<<"A">>)>>>> \o components(v)
                \o AsSeq([i \in 1..n |-> <<TPKeys[i], v>>]) \o d :
            v \in MeltsValues \ {NanVal}, n \in 0..6,
            d \in Field(<<"D", "P", "/", "d", "t">>, {IntVal(-3)})}
        \cup {<<<<<<"S", "i", "O", "2">>, FloatVal(502, 1)>>>>}

DefaultCall(ser) ==
    [ser |-> ser, linesep |-> <<"\n">>, writetraces |-> TRUE, modes |-> <<>>, exclude |-> {}]

MeltsInputs ==
    {DefaultCall(ser) : ser \in MeltsRecords}
    \cup [ser : {<<<<TITLE, StrVal(<<"A">>)>>, <<<<"S", "i", "O", "2">>, FloatVal(502, 1)>>,
                  <<<<"L", "a">>, IntVal(1200)>>>>},
          linesep : {<<"\n">>, <<"\r", "\n">>}, writetraces : BOOLEAN,
          modes : {<<>>, <<<<"i", "s", "o", "b", "a", "r", "i", "c">>>>}, exclude : {{}, {<<"S", "i", "O", "2">>}}]

SourceKinds == {"str", "StringIO", "BytesIO"}
RawTexts == {<<>>, <<"T", "i", "t", "l", "e">>, <<"T", "i", "t", "l", "e", ":", " ", "A">>, <<"I", "n", "i", "t", "i", "a", "l", " ", "C", "o", "m", "p", "o", "s", "i", "t", "i", "o", "n">>, <<"I", "n", "i", "t", "i", "a", "l", " ", "T", "r", "a", "c", "e", ":", " ", "L", "a">>}

Call_to_meltsfile ==
    /\ fn = "none"
    /\ \E in \in MeltsInputs :
        /\ fn' = "to_meltsfile"
        /\ args' = in
        /\ ret' = to_meltsfile(in.ser, in.linesep, in.writetraces, in.modes, in.exclude)
        /\ prev' = NoCall

Call_from_meltsfile ==
    /\ fn = "none"
    /\ \E text \in RawTexts, kind \in SourceKinds, file_exists \in BOOLEAN :
        /\ fn' = "from_meltsfile"
        /\ args' = [filename |-> [kind |-> kind, text |-> text], file_exists |-> file_exists]
        /\ ret' = from_meltsfile([kind |-> kind, text |-> text], file_exists)
        /\ prev' = NoCall

\* from_meltsfile(to_meltsfile(ser)), the text passed as it is or wrapped
Call_from_meltsfile_of_result ==
    /\ fn = "to_meltsfile"
    /\ ret.status = "ok"
    /\ \E kind \in SourceKinds, file_exists \in BOOLEAN :
        /\ fn' = "from_meltsfile"
        /\ args' = [filename |-> [kind |-> kind, text |-> ret.value], file_exists |-> file_exists]
        /\ ret' = from_meltsfile([kind |-> kind, text |-> ret.value], file_exists)
        /\ prev' = [fn |-> fn, args |-> args, ret |-> ret]

NextMelts ==
    \/ Call_to_meltsfile
    \/ Call_from_meltsfile
    \/ Call_from_meltsfile_of_result

SpecMelts == Init /\ [][NextMelts]_vars

(***************************************************************************)
(* Claims about the meltsfile round trip (SpecMelts)                       *)
(***************************************************************************)
\* a value up to the number it denotes: 1200 and 1200.0 are the same number
Canon(v) ==
    IF v.t \in {"int", "float"}
    THEN [t |-> "number", q |-> RNorm(v.m, Pow10(v.e)), s |-> <<>>]
    ELSE [t |-> v.t, q |-> R(0), s |-> v.s]

PairsOf(ser) == {<<ser[i][1], Canon(ser[i][2])>> : i \in 1..Len(ser)}

\* the fields the claim is about: Title, oxides and elements, temperature
\* and pressure parameters
ClaimedKeys == {TITLE} \cup CommonOxides \cup CommonElements \cup {TPKeys[i] : i \in 1..6}

NotMissing(ser) == LET present(p) == ~isnull(p[2]) IN SelectSeq(ser, present)

\* from_meltsfile(to_meltsfile(record)) with the default arguments, the text
\* passed as a str that names no existing file, for a record of the claimed
\* fields
RoundTrip ==
    /\ fn = "from_meltsfile"
    /\ prev.fn = "to_meltsfile"
    /\ prev.args = DefaultCall(prev.args.ser)
    /\ \A i \in 1..Len(prev.args.ser) : prev.args.ser[i][1] \in ClaimedKeys
    /\ HasKey(prev.args.ser, TITLE)
    /\ args.filename.kind = "str"
    /\ ~args.file_exists

\* a title that is a word: it spells no number, holds no ": " and no line
\* break, and has no whitespace at its ends
PlainTitle(ser) ==
    LET ttl == ValueAt(ser, TITLE)
    IN  /\ ttl.t = "str"
        /\ ttl.s # <<>>
        /\ to_numeric_value(ttl) = ttl
        /\ Len(split(ttl.s, COLON_SPACE)) = 1
        /\ splitlines(ttl.s) = <<ttl.s>>
        /\ strip(ttl.s) = ttl.s

Recovered ==
    /\ ret.status = "ok"
    /\ PairsOf(ret.value) = PairsOf(NotMissing(prev.args.ser))
    /\ Len(ret.value) = Len(NotMissing(prev.args.ser))

\* C14: for every record with a Title (here a plain word), oxide and element
\* composition fields and temperature and pressure fields,
\* from_meltsfile(to_meltsfile(record)) yields exactly the key-value pairs of
\* the record whose values are not missing, numbers recovered as numbers and
\* the title as its string.
C14_RoundTrip ==
    (RoundTrip /\ PlainTitle(prev.args.ser)) => Recovered

\* the round trip of a record whose text has more than NAME_MAX characters
\* without a "/" ends in the OSError of open(), which line 137 does not catch
C14_Witness ==
    /\ RoundTrip
    /\ PlainTitle(prev.args.ser)
    /\ NameTooLong(args.filename.text)
    /\ ret = RaiseAt("OSError", 135)

\* what holds: the round trip recovers the record when the text is read,
\* that is when it is short enough for open() to answer FileNotFoundError
C14_RoundTripOfShortText ==
    (RoundTrip /\ PlainTitle(prev.args.ser) /\ ~NameTooLong(args.filename.text))
        => Recovered

====
